---- MODULE Spec2Model ----
(***************************************************************************)
(* Compile coordination of the Typst online editor.                        *)
(*                                                                         *)
(*   Coordinator  src/src/lib/typst/TypstCompilerService.ts                *)
(*   Bridge       ./typstClient (TypstWorkerClient; not among the sources, *)
(*                modelled from section 4.3 of the specification)          *)
(*   Worker       src/src/lib/typst/typst.worker.ts (request queue)        *)
(*   Coalescer    src/src/lib/utils/helpers.ts (debounce)                  *)
(*                                                                         *)
(* JavaScript runs one task at a time.  A handler and the microtasks it    *)
(* queues form one step; the continuation of an `await` that a worker      *)
(* message resolves therefore runs in the step of that message.            *)
(***************************************************************************)
EXTENDS Integers, Sequences, FiniteSets

\* ------------------------------------------------------------------ bounds
MaxCompiles == 2        \* compile() calls per Coordinator
MaxRegs == 1            \* addListener() calls per Coordinator
MaxCompilesL == 1       \* the same two, where the observer list is examined
MaxRegsL == 2
MaxSchedules == 3       \* debounced() calls (timer ids handed out)
MaxTime == 5            \* clock ticks
Delay == 2              \* the delay argument of debounce(), in ticks
MaxRequests == 3        \* compile() calls where the worker is examined
MaxOverlap == 3         \* compile() calls where the Bridge is examined
MaxCompilesO == 2       \* compile() calls where the observers' urls are examined
MaxRegsO == 2           \* addListener() calls there
MaxBurst == 3           \* compile() calls of a burst
MaxClicks == 2          \* compile() calls up to which Compile Now is clicked

\* ------------------------------------------------------------- value sets
NULL == 0
Observers == {"A", "B"}
Sources == {"good", "bad"}
SourcesW == Sources \cup {"emoji"}
InitErr == "init failed"
Payloads == {"p", "q"}
DisposedMsg == "client disposed"

VARIABLES
    \* Coordinator (TypstCompilerService fields)
    compileSeq, currentPdfUrl, listeners,
    \* closures and promises of the Coordinator
    regs,          \* regs[t]: the listener object captured by token t
    tokenCalled,   \* tokenCalled[t]: token t has been invoked
    calls,         \* calls[s]: the compile() invocation with seq = s
    microQ,        \* rejected compile() calls whose continuation is queued
    \* browser object-URL registry
    liveUrls, urlCounter,
    \* Bridge (TypstWorkerClient)
    pending, nextCorrId, workerTerminated,
    \* Worker and the channel back
    compileQueue, outbox,
    \* observation
    last, lastStatus,
    \* Coalescer (debounce closure) and the browser timer table
    timeoutId, timers, nextTimerId, now, invoked,
    nSched, lastAt, lastPayload, burst, lastTimerOp,
    cancelMark,    \* nextTimerId when cancel() last returned (0: never)
    lastFired,     \* id of the timer whose callback ran last (0: none)
    \* Render Worker (module state of typst.worker.ts)
    compilerPromise, emojiLoaded,
    running,       \* the units whose queue callback has started
    baseBuilds, unionBuilds,   \* createCompilerWithFonts calls, per font set
    posted,        \* ids of the replies posted so far, in order
    initFailed,    \* a createCompilerWithFonts call has failed
    \* observers
    held,          \* held[o]: the url observer o last got by onSuccess
    \* Editor (TypstEditor component)
    typstCode, mounted

coordVars == <<compileSeq, currentPdfUrl, listeners, regs, tokenCalled, calls,
               microQ, liveUrls, urlCounter, pending, nextCorrId,
               workerTerminated, compileQueue, outbox, last, lastStatus>>
coalVars == <<timeoutId, timers, nextTimerId, now, invoked, nSched, lastAt,
              lastPayload, burst, lastTimerOp, cancelMark, lastFired>>
workVars == <<compilerPromise, emojiLoaded, running, baseBuilds, unionBuilds,
              posted, initFailed>>
editVars == <<typstCode, mounted>>
vars == <<coordVars, coalVars, workVars, held, editVars>>

\* ---------------------------------------------------------- small helpers
Range(s) == {s[i] : i \in 1..Len(s)}
RemoveAt(s, i) == SubSeq(s, 1, i - 1) \o SubSeq(s, i + 1, Len(s))

\* the document the renderer produces for a source text, or its diagnostics
\* (typst.worker.ts compilePdf: no result => throw Error(diagnostics.join))
RenderOk(src) == src = "good"
DiagOf(src) == "diag"

\* ------------------------------------------------- observer list (l.32-40)
\* Array.prototype.indexOf: position of the first element identical to obj,
\* 0 standing for JavaScript's -1 (positions are 1-based here)
IndexOf(ls, obj) ==
    IF \E i \in 1..Len(ls) : regs[ls[i]] = obj
    THEN CHOOSE i \in 1..Len(ls) :
            /\ regs[ls[i]] = obj
            /\ \A j \in 1..(i - 1) : regs[ls[j]] # obj
    ELSE 0

\* variant of the token below that tests `index > 0`: the head is never removed
UnsubscribeSkipsHead(ls, t) ==
    LET index == IndexOf(ls, regs[t])
    IN  IF index > 1 THEN RemoveAt(ls, index) ELSE ls

\* the arrow function returned by addListener (l.34-39): `index > -1` => splice
UnsubscribeToken(ls, t) ==
    LET index == IndexOf(ls, regs[t])
    IN  IF index > 0 THEN RemoveAt(ls, index) ELSE ls

\* every token handed out for observer o has been invoked
Unsubscribed(o, tc) ==
    /\ \E t \in 1..Len(regs) : regs[t] = o
    /\ \A t \in 1..Len(regs) : regs[t] = o => tc[t]

\* What a callback does while a notification is fanned out: nothing, or the
\* callback visited at index `at` invokes unsubscribe token `tok`.
NoPlan == [at |-> 0, tok |-> 0]
Plans(ls) == {NoPlan} \cup [at : 1..Len(ls), tok : 1..Len(regs)]

\* Array.prototype.forEach over this.listeners: the length is read once, an
\* index that no longer exists is skipped, elements are read when visited.
RECURSIVE ForEach(_, _, _, _, _)
ForEach(ls, k, len, plan, acc) ==
    IF k > len THEN [ls |-> ls, to |-> acc.to, tc |-> acc.tc, late |-> acc.late]
    ELSE IF k > Len(ls) THEN ForEach(ls, k + 1, len, plan, acc)
    ELSE LET r == ls[k]
             fires == plan.at = k
             acc2 == [to |-> Append(acc.to, r),
                      tc |-> IF fires THEN [acc.tc EXCEPT ![plan.tok] = TRUE]
                             ELSE acc.tc,
                      late |-> IF Unsubscribed(regs[r], acc.tc)
                               THEN acc.late \cup {regs[r]} ELSE acc.late]
             ls2 == IF fires THEN UnsubscribeToken(ls, plan.tok) ELSE ls
         IN  ForEach(ls2, k + 1, len, plan, acc2)

\* notifyStatusChange / notifySuccess / notifyError (l.120-136)
Notify(ls, tc, kind, arg, url, plan) ==
    LET f == ForEach(ls, 1, Len(ls), plan, [to |-> <<>>, tc |-> tc, late |-> {}])
    IN  [ls |-> f.ls, tc |-> f.tc,
         note |-> [kind |-> kind, arg |-> arg, url |-> url,
                   to |-> f.to, late |-> f.late]]

Op(op, arg, notes) == [op |-> op, arg |-> arg, notes |-> notes]

\* ------------------------------------------------------------------ Init
NewCall(src, corr, late) ==
    [st |-> "awaiting", src |-> src, corr |-> corr, afterDispose |-> late,
     res |-> "none", url |-> NULL, error |-> ""]

InitCoordinator ==
    /\ compileSeq = 0
    /\ currentPdfUrl = NULL
    /\ listeners = <<>>
    /\ regs = <<>>
    /\ tokenCalled = <<>>
    /\ calls = <<>>
    /\ microQ = <<>>
    /\ liveUrls = {}
    /\ urlCounter = 0
    /\ pending = <<>>
    /\ nextCorrId = 1
    /\ workerTerminated = FALSE
    /\ compileQueue = <<>>
    /\ outbox = <<>>
    /\ last = Op("init", 0, <<>>)
    /\ lastStatus = "idle"

\* --------------------------------------------------------- Coordinator API
\* addListener(listener) (l.32-40)
AddListenerCore(o) ==
    /\ regs' = Append(regs, o)
    /\ tokenCalled' = Append(tokenCalled, FALSE)
    /\ listeners' = Append(listeners, Len(regs) + 1)
    /\ last' = Op("addListener", Len(regs) + 1, <<>>)
    /\ UNCHANGED <<compileSeq, currentPdfUrl, calls, microQ, liveUrls,
                   urlCounter, pending, nextCorrId, workerTerminated,
                   compileQueue, outbox, lastStatus>>

AddListener(o) ==
    /\ AddListenerCore(o)
    /\ UNCHANGED <<coalVars, workVars, held, editVars>>

\* the token returned by addListener, invoked outside any notification
Unsubscribe(t) ==
    /\ t \in 1..Len(regs)
    /\ listeners' = UnsubscribeToken(listeners, t)
    /\ tokenCalled' = [tokenCalled EXCEPT ![t] = TRUE]
    /\ last' = Op("unsubscribe", t, <<>>)
    /\ UNCHANGED <<compileSeq, currentPdfUrl, regs, calls, microQ, liveUrls,
                   urlCounter, pending, nextCorrId, workerTerminated,
                   compileQueue, outbox, lastStatus>>
    /\ UNCHANGED <<coalVars, workVars, held, editVars>>

\* ------------------------------------------------ Bridge (typstClient)
\* compilePdf(mainTypst, images): a correlation id unique for the client's
\* lifetime, the resolver registered under it, the request posted.  A worker
\* that has been terminated receives nothing.
ClientCompilePdf(src) ==
    /\ pending' = Append(pending, nextCorrId)
    /\ nextCorrId' = nextCorrId + 1
    /\ compileQueue' = IF workerTerminated THEN compileQueue
                       ELSE Append(compileQueue,
                                   [id |-> nextCorrId, mainTypst |-> src])

\* dispose(): every pending entry is rejected with "client disposed" (in the
\* table's insertion order), the table is emptied, the worker is terminated
\* together with the units it has not run.
ClientDispose ==
    /\ microQ' = microQ \o pending
    /\ pending' = <<>>
    /\ workerTerminated' = TRUE
    /\ compileQueue' = <<>>

\* variant of the operator below: a reply settles the oldest pending entry
CallOfOldest(corr) ==
    CHOOSE c \in 1..Len(calls) :
        calls[c].corr = IF pending = <<>> THEN corr ELSE Head(pending)
\* the compile() invocation that awaits correlation id `corr`
CallOf(corr) == CHOOSE c \in 1..Len(calls) : calls[c].corr = corr

\* ------------------------------------------------------- Coordinator, cont.
\* variant of the operator below: the counter skips a number
NextSeqByTwo(n) == n + 2
\* `++this.compileSeq` (l.46)
NextSeq(n) == n + 1

\* compile(code) up to its await (l.45-51): ++compileSeq, notify 'compiling',
\* then client.compilePdf(code, {}).
CompileCore(src, plan) ==
    /\ plan \in Plans(listeners)
    /\ LET seq == NextSeq(compileSeq)
           n == Notify(listeners, tokenCalled, "status", "compiling", NULL, plan)
       IN  /\ compileSeq' = seq
           /\ listeners' = n.ls
           /\ tokenCalled' = n.tc
           /\ calls' = Append(calls, NewCall(src, nextCorrId, workerTerminated))
           /\ ClientCompilePdf(src)
           /\ last' = Op("compile", seq, <<n.note>>)
           /\ lastStatus' = "compiling"
    /\ UNCHANGED <<currentPdfUrl, regs, microQ, liveUrls, urlCounter,
                   workerTerminated, outbox>>

Compile(src, plan) ==
    /\ CompileCore(src, plan)
    /\ UNCHANGED <<coalVars, workVars, held, editVars>>

\* variants of the test below: no test at all; the test of l.82 left out
SupersededNever(seq, ok) == FALSE
SupersededAlways(seq, ok) == TRUE
SupersededTryOnly(seq, ok) == ok /\ seq # compileSeq
\* the `seq !== this.compileSeq` test of both branches (l.54, l.82)
Superseded(seq, ok) == seq # compileSeq

\* variant of the operator below: the catch branch drops the handle
UrlAfterFailureCleared(url) == NULL
\* the handle left in currentPdfUrl by the catch branch (l.80-98): untouched
UrlAfterFailure(url) == url

\* variant of the operator below: the old handle is never revoked
RevokeNothing(urls, url) == urls
\* URL.revokeObjectURL(this.currentPdfUrl) guarded by `if (this.currentPdfUrl)`
\* (l.62-64, l.113-116)
Revoke(urls, url) == IF url # NULL THEN urls \ {url} ELSE urls

\* variant of the operator below: the catch block throws the error again
CatchRethrows(errorMsg) == "rejected"
\* status of the outcome the catch block returns for a current failure
\* (l.92-97): the promise of compile() resolves with it
CatchOutcome(errorMsg) == "error"

\* compile(code) after its await (l.53-98), for the call with sequence number
\* c whose client promise settled with reply rep.
Continue(c, rep, p1, p2) ==
    LET seq == c
        ret(res, url, err) ==
            [calls EXCEPT ![c].st = "returned", ![c].res = res,
                          ![c].url = url, ![c].error = err]
    IN  IF Superseded(seq, rep.ok)
        THEN /\ calls' = ret("idle", NULL, "")
             /\ last' = Op("reply", c, <<>>)
             /\ UNCHANGED <<currentPdfUrl, listeners, tokenCalled, liveUrls,
                            urlCounter, lastStatus, held>>
        ELSE IF rep.ok
        THEN LET pdfUrl == urlCounter + 1
                 n1 == Notify(listeners, tokenCalled, "success", rep.pdf,
                              pdfUrl, p1)
                 n2 == Notify(n1.ls, n1.tc, "status", "done", NULL, p2)
             IN  /\ p1 \in Plans(listeners)
                 /\ p2 \in Plans(n1.ls)
                 /\ liveUrls' = Revoke(liveUrls, currentPdfUrl) \cup {pdfUrl}
                 /\ urlCounter' = pdfUrl
                 /\ currentPdfUrl' = pdfUrl
                 /\ listeners' = n2.ls
                 /\ tokenCalled' = n2.tc
                 /\ calls' = ret("done", pdfUrl, "")
                 /\ last' = Op("reply", c, <<n1.note, n2.note>>)
                 /\ lastStatus' = "done"
                 /\ held' = [o \in Observers |->
                                IF \E t \in Range(n1.note.to) : regs[t] = o
                                THEN pdfUrl ELSE held[o]]
        ELSE LET n1 == Notify(listeners, tokenCalled, "error", rep.error,
                              NULL, p1)
                 n2 == Notify(n1.ls, n1.tc, "status", "error", NULL, p2)
             IN  /\ p1 \in Plans(listeners)
                 /\ p2 \in Plans(n1.ls)
                 /\ currentPdfUrl' = UrlAfterFailure(currentPdfUrl)
                 /\ listeners' = n2.ls
                 /\ tokenCalled' = n2.tc
                 /\ calls' = ret(CatchOutcome(rep.error), NULL, rep.error)
                 /\ last' = Op("reply", c, <<n1.note, n2.note>>)
                 /\ lastStatus' = "error"
                 /\ UNCHANGED <<liveUrls, urlCounter, held>>

\* dispose() (l.111-118)
Dispose ==
    /\ ClientDispose
    /\ calls' = [c \in 1..Len(calls) |->
                    IF calls[c].corr \in Range(pending)
                    THEN [calls[c] EXCEPT !.st = "queued"] ELSE calls[c]]
    /\ liveUrls' = Revoke(liveUrls, currentPdfUrl)
    /\ currentPdfUrl' = NULL
    /\ listeners' = <<>>
    /\ last' = Op("dispose", 0, <<>>)
    /\ UNCHANGED <<compileSeq, regs, tokenCalled, urlCounter, nextCorrId,
                   outbox, lastStatus>>
    /\ UNCHANGED <<coalVars, workVars, held, editVars>>

\* the continuation of a compile() whose client promise dispose() rejected;
\* it runs as a microtask once the code that called dispose() has returned
RunMicrotask ==
    /\ microQ # <<>>
    /\ microQ' = Tail(microQ)
    /\ \E p1, p2 \in Plans(listeners) :
          Continue(CallOf(Head(microQ)),
                   [ok |-> FALSE, pdf |-> "", error |-> DisposedMsg], p1, p2)
    /\ UNCHANGED <<compileSeq, regs, pending, nextCorrId, workerTerminated,
                   compileQueue, outbox>>
    /\ UNCHANGED <<coalVars, workVars, editVars>>

\* ------------------------------------------------------------------ Worker
\* result.diagnostics of the renderer for a source text (l.172)
DiagnosticsOf(src) == IF src = "bad" THEN <<"diag">> ELSE <<>>

\* the two replies of ctx.onmessage (l.193-210).  `cause` (what made the unit
\* fail) and `fonts` (the font set of the renderer used) are not sent.
ReplyOk(message, diagnostics, fonts) ==
    [id |-> message.id, ok |-> TRUE, pdf |-> message.mainTypst, error |-> "",
     diagnostics |-> diagnostics, cause |-> "none", fonts |-> fonts]

ReplyFail(message, error, cause, fonts) ==
    [id |-> message.id, ok |-> FALSE, pdf |-> "", error |-> error,
     diagnostics |-> <<>>, cause |-> cause, fonts |-> fonts]

\* One unit of ctx.onmessage (l.189-211), for the i-th waiting request, taken
\* as a whole: it posts one reply tagged with the request's id.
WorkerUnitAt(i) ==
    /\ i \in 1..Len(compileQueue)
    /\ LET message == compileQueue[i]
           reply == IF RenderOk(message.mainTypst)
                    THEN ReplyOk(message, DiagnosticsOf(message.mainTypst),
                                 "core")
                    ELSE ReplyFail(message, DiagOf(message.mainTypst),
                                   "render", "core")
       IN  /\ compileQueue' = RemoveAt(compileQueue, i)
           /\ outbox' = Append(outbox, reply)
           /\ last' = Op("unit", message.id, <<>>)
    /\ UNCHANGED <<compileSeq, currentPdfUrl, listeners, regs, tokenCalled,
                   calls, microQ, liveUrls, urlCounter, pending, nextCorrId,
                   workerTerminated, lastStatus>>
    /\ UNCHANGED <<coalVars, workVars, held, editVars>>

\* ctx.onmessage (typst.worker.ts l.184-213): units run one after the other
\* in arrival order.
WorkerUnit == WorkerUnitAt(1)

\* ---------------------------------------- Worker, one await after the other
\* compilerPromise: null, or a promise (pending, fulfilled, rejected) of a
\* renderer built with the core fonts or with core and emoji fonts
NoCompiler == [st |-> "null", fonts |-> "none"]

\* needsEmojiFont(text) (l.112-114)
NeedsEmojiFont(src) == src = "emoji"

\* getCurrentFonts() (l.119-121)
GetCurrentFonts(loaded) == IF loaded THEN "union" ELSE "core"

\* variant of the test below: the upgrade is not remembered
UpgradeAlways(loaded) == TRUE
\* upgradeCompilerWithEmoji: `if (emojiLoaded) return` (l.128)
UpgradeNeeded(loaded) == ~loaded

\* variant of the test below: the promise is not memoized
BuildAlways(cp) == TRUE
\* getCompiler: `if (compilerPromise) return compilerPromise` (l.140)
BuildNeeded(cp) == cp.st = "null"

\* variant of the test below: a unit starts without waiting for the one before
ChainFree(units) == TRUE
\* compileQueue = compileQueue.then(...) (l.188): the callback of a unit runs
\* once the promise of the unit before it has settled
ChainReady(units) == units = {}

\* variant of the operator below: a failed unit posts nothing
PostOnlyOk(out, reply) == IF reply.ok THEN Append(out, reply) ELSE out
\* ctx.postMessage(reply) (l.193, l.204)
PostReply(out, reply) == Append(out, reply)

\* getCompiler() (l.139-144) called by unit u: the promise it then awaits
GetCompiler(u) ==
    IF BuildNeeded(compilerPromise)
    THEN /\ compilerPromise' = [st |-> "pending", fonts |-> "core"]
         /\ baseBuilds' = baseBuilds + 1
    ELSE UNCHANGED <<compilerPromise, baseBuilds>>

\* the unit ends: its reply is posted and the queue promise settles
UnitEnds(u, reply) ==
    /\ running' = running \ {u}
    /\ outbox' = PostReply(outbox, reply)
    /\ posted' = IF Len(outbox') > Len(outbox) THEN Append(posted, reply.id)
                 ELSE posted
    /\ initFailed' = (initFailed \/ reply.cause = "init")

\* The queue callback of the oldest waiting request starts (l.188-190):
\* compilePdf runs up to its first await, which is the construction of the
\* upgraded renderer (l.155-156, l.128-133) or the promise of getCompiler
\* (l.159).
UnitStart ==
    /\ compileQueue # <<>>
    /\ ChainReady(running)
    /\ LET message == Head(compileQueue)
           upgrade == NeedsEmojiFont(message.mainTypst)
                        /\ UpgradeNeeded(emojiLoaded)
           u == [id |-> message.id, mainTypst |-> message.mainTypst,
                 pc |-> IF upgrade THEN "upgrading" ELSE "compiler"]
       IN  /\ compileQueue' = Tail(compileQueue)
           /\ running' = running \cup {u}
           /\ last' = Op("unit", message.id, <<>>)
           /\ IF upgrade
              THEN /\ emojiLoaded' = TRUE
                   /\ unionBuilds' = unionBuilds + 1
                   /\ UNCHANGED <<compilerPromise, baseBuilds>>
              ELSE /\ GetCompiler(u)
                   /\ UNCHANGED <<emojiLoaded, unionBuilds>>
    /\ UNCHANGED <<compileSeq, currentPdfUrl, listeners, regs, tokenCalled,
                   calls, microQ, liveUrls, urlCounter, pending, nextCorrId,
                   workerTerminated, outbox, lastStatus, posted, initFailed>>
    /\ UNCHANGED <<coalVars, held, editVars>>

\* createCompilerWithFonts(getCurrentFonts()) of the upgrade settles (l.133):
\* built, the renderer replaces compilerPromise (l.134) and compilePdf goes
\* on to getCompiler (l.159); not built, the unit fails (l.203-210).
UnitUpgraded(u, built) ==
    /\ u \in running /\ u.pc = "upgrading"
    /\ last' = Op("unit", u.id, <<>>)
    /\ IF built
       THEN /\ compilerPromise' = [st |-> "ok",
                                   fonts |-> GetCurrentFonts(emojiLoaded)]
            /\ running' = (running \ {u}) \cup {[u EXCEPT !.pc = "compiler"]}
            /\ UNCHANGED <<outbox, posted, initFailed>>
       ELSE /\ UnitEnds(u, ReplyFail(u, InitErr, "init", "none"))
            /\ UNCHANGED compilerPromise
    /\ UNCHANGED <<compileSeq, currentPdfUrl, listeners, regs, tokenCalled,
                   calls, microQ, liveUrls, urlCounter, pending, nextCorrId,
                   workerTerminated, compileQueue, lastStatus, emojiLoaded,
                   baseBuilds, unionBuilds>>
    /\ UNCHANGED <<coalVars, held, editVars>>

\* `await getCompiler()` (l.159) settles; a promise still pending settles
\* now, either way.  With a renderer the unit registers the source and
\* starts compiler.compile (l.160-170); without, it fails (l.203-210).
UnitGotCompiler(u, built) ==
    /\ u \in running /\ u.pc = "compiler"
    /\ last' = Op("unit", u.id, <<>>)
    /\ LET cp == IF compilerPromise.st = "pending"
                 THEN [compilerPromise EXCEPT
                         !.st = IF built THEN "ok" ELSE "failed"]
                 ELSE compilerPromise
       IN  /\ compilerPromise.st # "pending" => built
           /\ compilerPromise' = cp
           /\ IF cp.st = "ok"
              THEN /\ running' = (running \ {u}) \cup
                                    {[u EXCEPT !.pc = cp.fonts]}
                   /\ UNCHANGED <<outbox, posted, initFailed>>
              ELSE UnitEnds(u, ReplyFail(u, InitErr, "init", "none"))
    /\ UNCHANGED <<compileSeq, currentPdfUrl, listeners, regs, tokenCalled,
                   calls, microQ, liveUrls, urlCounter, pending, nextCorrId,
                   workerTerminated, compileQueue, lastStatus, emojiLoaded,
                   baseBuilds, unionBuilds>>
    /\ UNCHANGED <<coalVars, held, editVars>>

\* compiler.compile settles (l.166-178): with a result the unit posts the
\* document and the diagnostics, without it throws the joined diagnostics
\* and the handler posts the failure (l.190-211).  u.pc names the font set
\* of the renderer the unit obtained.
UnitRendered(u) ==
    /\ u \in running /\ u.pc \in {"core", "union"}
    /\ last' = Op("unit", u.id, <<>>)
    /\ UnitEnds(u, IF RenderOk(u.mainTypst)
                   THEN ReplyOk(u, DiagnosticsOf(u.mainTypst), u.pc)
                   ELSE ReplyFail(u, DiagOf(u.mainTypst), "render", u.pc))
    /\ UNCHANGED <<compileSeq, currentPdfUrl, listeners, regs, tokenCalled,
                   calls, microQ, liveUrls, urlCounter, pending, nextCorrId,
                   workerTerminated, compileQueue, lastStatus, compilerPromise,
                   emojiLoaded, baseBuilds, unionBuilds>>
    /\ UNCHANGED <<coalVars, held, editVars>>

\* the client's worker.onmessage: the entry is looked up by id, removed and
\* settled; a reply without an entry is dropped.  The awaiting compile()
\* resumes in the microtask checkpoint of this very task.
Deliver(p1, p2) ==
    /\ outbox # <<>>
    /\ microQ = <<>>
    /\ outbox' = Tail(outbox)
    /\ LET reply == Head(outbox)
       IN  IF reply.id \in Range(pending)
           THEN /\ pending' = SelectSeq(pending, LAMBDA x : x # reply.id)
                /\ Continue(CallOf(reply.id), reply, p1, p2)
           ELSE /\ last' = Op("dropped", reply.id, <<>>)
                /\ UNCHANGED <<pending, currentPdfUrl, listeners, tokenCalled,
                               calls, liveUrls, urlCounter, lastStatus, held>>
    /\ UNCHANGED <<compileSeq, regs, microQ, nextCorrId, workerTerminated,
                   compileQueue>>
    /\ UNCHANGED <<coalVars, workVars, editVars>>

\* the callbacks of the observers may invoke any of the tokens
OnMessage == \E p1, p2 \in Plans(listeners) : Deliver(p1, p2)

\* the operations, for at most nc compile() and nr addListener() calls
NextBounded(nc, nr) ==
    \/ \E o \in Observers : Len(regs) < nr /\ AddListener(o)
    \/ \E t \in 1..Len(regs) : Unsubscribe(t)
    \/ \E src \in Sources, plan \in Plans(listeners) :
          compileSeq < nc /\ Compile(src, plan)
    \/ Dispose
    \/ RunMicrotask
    \/ WorkerUnit
    \/ OnMessage

\* the Coordinator with the worker's units taken one await at a time
NextWorker ==
    \/ \E src \in SourcesW : compileSeq < MaxRequests /\ Compile(src, NoPlan)
    \/ UnitStart
    \/ \E u \in running, built \in BOOLEAN : UnitUpgraded(u, built)
    \/ \E u \in running, built \in BOOLEAN : UnitGotCompiler(u, built)
    \/ \E u \in running : UnitRendered(u)
    \/ OnMessage

\* the Bridge under overlapping calls, with replies in every order a worker
\* could post them
NextBridge ==
    \/ \E src \in Sources : compileSeq < MaxOverlap /\ Compile(src, NoPlan)
    \/ \E i \in 1..Len(compileQueue) : WorkerUnitAt(i)
    \/ OnMessage
    \/ Dispose
    \/ RunMicrotask

\* the Coordinator and its observers as long as dispose() is not called
NextObservers ==
    \/ \E o \in Observers : Len(regs) < MaxRegsO /\ AddListener(o)
    \/ \E t \in 1..Len(regs) : Unsubscribe(t)
    \/ \E src \in Sources, plan \in Plans(listeners) :
          compileSeq < MaxCompilesO /\ Compile(src, plan)
    \/ WorkerUnit
    \/ OnMessage

\* a burst of compile() calls on a Coordinator that is not disposed
NextBurst ==
    \/ \E src \in Sources : compileSeq < MaxBurst /\ Compile(src, NoPlan)
    \/ WorkerUnit
    \/ OnMessage

NextCoordinator == NextBounded(MaxCompiles, MaxRegs)
NextListeners == NextBounded(MaxCompilesL, MaxRegsL)

InitWorker ==
    /\ compilerPromise = NoCompiler
    /\ emojiLoaded = FALSE
    /\ running = {}
    /\ baseBuilds = 0
    /\ unionBuilds = 0
    /\ posted = <<>>
    /\ initFailed = FALSE

\* no observer has been given a url
InitObservers == held = [o \in Observers |-> NULL]

\* TypstEditor before its effects have run: the initial text (l.10-12)
InitEditor ==
    /\ typstCode = "good"
    /\ mounted = FALSE

InitCoalescer ==
    /\ timeoutId = NULL
    /\ timers = {}
    /\ nextTimerId = 1
    /\ now = 0
    /\ invoked = <<>>
    /\ nSched = 0
    /\ lastAt = 0
    /\ lastPayload = ""
    /\ burst = TRUE
    /\ lastTimerOp = "init"
    /\ cancelMark = 0
    /\ lastFired = 0

\* ------------------------------------------- Coalescer (helpers.ts l.5-33)
\* window.setTimeout(cb, delay): a new entry of the timer table, a fresh id
SetTimeout(tms, id, args) ==
    tms \cup {[id |-> id, args |-> args, due |-> now + Delay]}

\* clearTimeout(id): the entry, if it is still there, is removed
ClearTimeout(tms, id) == {t \in tms : t.id # id}

\* variant of the operator below: the armed timer is not cleared first
DebouncedNoClear(tid, tms, args) ==
    [timeoutId |-> nextTimerId, timers |-> SetTimeout(tms, nextTimerId, args)]

\* the body of `debounced` (l.14-23) on timeoutId tid and timer table tms

Debounced(tid, tms, args) ==
    LET cleared == IF tid # NULL THEN ClearTimeout(tms, tid) ELSE tms
    IN  [timeoutId |-> nextTimerId,
         timers |-> SetTimeout(cleared, nextTimerId, args)]

\* what the sequence of schedule calls so far looks like after one more call
ScheduleNoted(args) ==
    /\ nSched' = nSched + 1
    /\ lastAt' = now
    /\ lastPayload' = args
    /\ burst' = (burst /\ (nSched = 0 \/ now - lastAt < Delay))

\* debounced(args), called by the user of the closure
ScheduleCore(args) ==
    /\ nextTimerId <= MaxSchedules
    /\ LET d == Debounced(timeoutId, timers, args)
       IN  /\ timeoutId' = d.timeoutId
           /\ timers' = d.timers
    /\ nextTimerId' = nextTimerId + 1
    /\ ScheduleNoted(args)
    /\ lastTimerOp' = "schedule"
    /\ UNCHANGED <<now, invoked, cancelMark, lastFired>>

Schedule(args) ==
    /\ ScheduleCore(args)
    /\ UNCHANGED <<coordVars, workVars, held, editVars>>

\* debounced.cancel() (l.25-30)
Cancel ==
    /\ IF timeoutId # NULL
       THEN /\ timers' = ClearTimeout(timers, timeoutId)
            /\ timeoutId' = NULL
       ELSE UNCHANGED <<timers, timeoutId>>
    /\ burst' = (burst /\ nSched = 0)
    /\ lastTimerOp' = "cancel"
    /\ cancelMark' = nextTimerId
    /\ UNCHANGED <<nextTimerId, now, invoked, nSched, lastAt, lastPayload,
                   lastFired>>
    /\ UNCHANGED <<coordVars, workVars, held, editVars>>

\* The timer callback (l.19-22) of an entry that is due: func(...args), then
\* timeoutId = null.  func returns, throws (the assignment is then skipped),
\* or calls debounced(q) itself before it returns.
FuncBehaviours == {"returns", "throws"} \cup Payloads

FireCore(t, f) ==
    /\ t \in timers
    /\ now >= t.due
    /\ invoked' = Append(invoked, t.args)
    /\ lastTimerOp' = "fire"
    /\ lastFired' = t.id
    /\ IF f = "returns"
       THEN /\ timers' = timers \ {t}
            /\ timeoutId' = NULL
            /\ UNCHANGED <<nextTimerId, nSched, lastAt, lastPayload, burst>>
       ELSE IF f = "throws"
       THEN /\ timers' = timers \ {t}
            /\ UNCHANGED <<timeoutId, nextTimerId, nSched, lastAt,
                           lastPayload, burst>>
       ELSE /\ nextTimerId <= MaxSchedules
            /\ timers' = Debounced(timeoutId, timers \ {t}, f).timers
            /\ timeoutId' = NULL
            /\ nextTimerId' = nextTimerId + 1
            /\ ScheduleNoted(f)
    /\ UNCHANGED <<now, cancelMark>>

Fire(t, f) ==
    /\ FireCore(t, f)
    /\ UNCHANGED <<coordVars, workVars, held, editVars>>

\* time passes; a timer fires no earlier than its delay, possibly later
Tick ==
    /\ now < MaxTime
    /\ now' = now + 1
    /\ lastTimerOp' = "tick"
    /\ UNCHANGED <<timeoutId, timers, nextTimerId, invoked, nSched, lastAt,
                   lastPayload, burst, cancelMark, lastFired>>
    /\ UNCHANGED <<coordVars, workVars, held, editVars>>

NextCoalescer ==
    \/ \E args \in Payloads : Schedule(args)
    \/ Cancel
    \/ \E t \in timers, f \in FuncBehaviours : Fire(t, f)
    \/ Tick

\* ------------------------------------------- Editor (TypstEditor.tsx)
\* The effects of the first render (l.22-62): the Coordinator is created, the
\* editor registers its listener, the debounced compile is created and is
\* called with the initial text.
Mount ==
    /\ ~mounted
    /\ mounted' = TRUE
    /\ AddListenerCore("A")
    /\ ScheduleCore(typstCode)
    /\ UNCHANGED <<typstCode, workVars, held>>

\* onChange of the text area (l.189), or an example has been loaded (l.82):
\* setTypstCode(text); the text differs, so the component renders again and
\* the effect on typstCode calls the debounced compile (l.58-62).
Edit(text) ==
    /\ mounted
    /\ text # typstCode
    /\ typstCode' = text
    /\ ScheduleCore(text)
    /\ UNCHANGED <<coordVars, workVars, held, mounted>>

\* handleCompileNow (l.65-69); the button is disabled while the status the
\* listener has stored is 'compiling' (l.169)
CompileNow ==
    /\ mounted
    /\ lastStatus # "compiling"
    /\ Compile(typstCode, NoPlan)

\* the timer of the debounced compile fires (l.45-49 in helpers.ts l.19-22):
\* compile(code) is started with the text the timer was armed with, and the
\* callback returns
EditorFire(t) ==
    /\ FireCore(t, "returns")
    /\ CompileCore(t.args, NoPlan)
    /\ UNCHANGED <<workVars, held, editVars>>

\* the editor's callbacks only store what they are given (l.29-42)
NextEditor ==
    \/ Mount
    \/ \E text \in Sources : Edit(text)
    \/ compileSeq < MaxClicks /\ CompileNow
    \/ \E t \in timers : EditorFire(t)
    \/ Tick
    \/ WorkerUnit
    \/ Deliver(NoPlan, NoPlan)

\* ---------------------------------------------------------- specifications
Init == InitCoordinator /\ InitCoalescer /\ InitWorker /\ InitObservers
        /\ InitEditor

SpecCoordinator == Init /\ [][NextCoordinator]_vars
SpecListeners == Init /\ [][NextListeners]_vars
SpecCoalescer == Init /\ [][NextCoalescer]_vars
SpecWorker == Init /\ [][NextWorker]_vars
SpecBridge == Init /\ [][NextBridge]_vars
SpecObservers == Init /\ [][NextObservers]_vars
SpecEditor == Init /\ [][NextEditor]_vars
\* the worker runs every unit it has queued and the main thread handles
\* every message it is sent
SpecBurst == Init /\ [][NextBurst]_vars /\ WF_vars(WorkerUnit) /\ WF_vars(OnMessage)

\* ------------------------------------------------------------------ claims
\* the continuation of compile() number c runs in this step
Resumes(c) == calls[c].st # "returned" /\ calls'[c].st = "returned"

\* the reply that resumes compile() number c in this step is a failure
FailureFor(c) ==
    \/ microQ # <<>> /\ Head(microQ) = calls[c].corr
    \/ /\ microQ = <<>> /\ outbox # <<>>
       /\ Head(outbox).id = calls[c].corr /\ ~Head(outbox).ok

FailureMsg(c) == IF microQ # <<>> THEN DisposedMsg ELSE Head(outbox).error

Emits(notes, kinds) == \E i \in 1..Len(notes) : notes[i].kind \in kinds

EmitsStatus(notes, sts) ==
    \E i \in 1..Len(notes) : notes[i].kind = "status" /\ notes[i].arg \in sts

C2_AtMostOneLive ==
    /\ Cardinality(liveUrls) <= 1
    /\ liveUrls = (IF currentPdfUrl = NULL THEN {} ELSE {currentPdfUrl})
    /\ last.op = "dispose" => liveUrls = {}

C2_SecondArtifactInstalled ==
    last.op = "reply" /\ urlCounter = 2 /\ liveUrls = {2}

\* C3: a current failure reply emits onError with the message and the error
\* status, and leaves currentPdfUrl and the live handle as they were.
C3_FailureKeepsArtifact ==
    [][\A c \in 1..Len(calls) : (Resumes(c) /\ c = compileSeq /\ FailureFor(c)) =>
            /\ Len(last'.notes) = 2
            /\ last'.notes[1].kind = "error"
            /\ last'.notes[1].arg = FailureMsg(c)
            /\ last'.notes[2].kind = "status"
            /\ last'.notes[2].arg = "error"
            /\ currentPdfUrl' = currentPdfUrl
            /\ liveUrls' = liveUrls]_vars

C3_FailureWithLiveArtifact ==
    /\ last.op = "reply" /\ last.arg = compileSeq
    /\ calls[last.arg].res = "error"
    /\ currentPdfUrl # NULL /\ currentPdfUrl \in liveUrls

\* C4: token t removes the registration it was returned for, and only that
\* one, the first time it is invoked, and changes nothing afterwards.
C4_TokenExactAndIdempotent ==
    [][\A t \in 1..Len(regs) :
          (last' # last /\ last'.op = "unsubscribe" /\ last'.arg = t) =>
             IF tokenCalled[t] THEN listeners' = listeners
             ELSE listeners' = SelectSeq(listeners, LAMBDA r : r # t)]_vars

\* C5: an observer every one of whose unsubscribe tokens has been invoked is
\* visited by no notification from then on (also not by the rest of a
\* notification during which the last of its tokens is invoked).
C5_UnsubscribedGetsNothing ==
    \A i \in 1..Len(last.notes) : last.notes[i].late = {}

C5_ReplyAfterUnsubscribe ==
    /\ last.op = "reply" /\ last.notes # <<>>
    /\ last.notes[1].to # <<>>
    /\ \E o \in Observers : Unsubscribed(o, tokenCalled)

\* C6: a compile() issued after dispose() does not stay pending: it has
\* settled with a failure (or its rejection is queued) and nothing new is
\* installed.
C6_CompileAfterDisposeFailsFast ==
    \A c \in 1..Len(calls) : calls[c].afterDispose =>
        /\ calls[c].st # "awaiting"
        /\ calls[c].res \in {"none", "error", "idle"}

\* C7: right after dispose() no compile() is left waiting for the worker and
\* no handle is live; a compile() that dispose() rejected has its continuation
\* in the microtask queue until it has returned, and returns a failure.
C7_DisposeSettlesAll ==
    /\ last.op = "dispose" =>
          /\ \A c \in 1..Len(calls) : calls[c].st # "awaiting"
          /\ liveUrls = {} /\ currentPdfUrl = NULL
    /\ \A c \in 1..Len(calls) :
          /\ calls[c].st = "queued" <=> calls[c].corr \in Range(microQ)
          /\ calls[c].error = DisposedMsg => calls[c].res = "error"
    /\ (last.op = "reply" /\ last.arg \in 1..Len(calls))
          => calls[last.arg].st = "returned"

C7_DisposedWhileOutstanding ==
    /\ last.op = "dispose"
    /\ Len(microQ) >= 1
    /\ urlCounter >= 1

\* C8: done and error are emitted only while the most recently emitted status
\* is compiling; a stale reply emits no status.
C8_StatusMachine ==
    [][/\ EmitsStatus(last'.notes, {"done", "error"}) => lastStatus = "compiling"
       /\ EmitsStatus(last'.notes, {"compiling"}) => last'.op = "compile"
       /\ \A c \in 1..Len(calls) : (Resumes(c) /\ c # compileSeq) =>
             /\ ~Emits(last'.notes, {"status"})
             /\ lastStatus' = lastStatus]_vars

C8_DoneAfterStale ==
    /\ last.op = "reply" /\ lastStatus = "done"
    /\ \E c \in 1..Len(calls) : calls[c].res = "idle"

\* C9: while every schedule call came less than Delay after the one before
\* and no cancel followed, func has not run as long as the timer is armed,
\* and has run exactly once, with the last payload, when it no longer is.
C9_BurstInvokesOnceWithLast ==
    (burst /\ nSched >= 1) =>
        IF timers = {} THEN invoked = <<lastPayload>>
        ELSE /\ invoked = <<>>
             /\ \A t \in timers : t.args = lastPayload
             /\ Cardinality(timers) = 1

C9_BurstOfTwoFired ==
    burst /\ nSched >= 2 /\ timers = {} /\ invoked = <<lastPayload>>

\* C10: at most one timer is armed, and a schedule call leaves the list of
\* invocations as it was.
C10_AtMostOneTimer ==
    [][/\ Cardinality(timers') <= 1
       /\ lastTimerOp' = "schedule" => invoked' = invoked]_vars

\* C11: a timer callback that runs after cancel() returned belongs to a
\* schedule call made after that cancel (timer ids are handed out in the
\* order of the schedule calls).
C11_NoInvocationAfterCancel ==
    lastTimerOp = "fire" => lastFired >= cancelMark

\* C12: a failed reply for a source on which the renderer returns no output
\* carries a non-empty diagnostics sequence and no document.
C12_FailedReplyHasDiagnostics ==
    \A i \in 1..Len(outbox) :
        (~outbox[i].ok /\ outbox[i].cause = "render") =>
            /\ outbox[i].diagnostics # <<>>
            /\ outbox[i].pdf = ""

\* ids of the requests the worker has received so far
Received == 1..(nextCorrId - 1)

\* number of places request id is in: the queue, a unit, the replies posted
Places(id) ==
    Cardinality({i \in 1..Len(compileQueue) : compileQueue[i].id = id})
  + Cardinality({u \in running : u.id = id})
  + Cardinality({i \in 1..Len(posted) : posted[i] = id})

\* C16: at most one unit is in progress, the unit in progress is older than
\* every waiting request and newer than every reply posted, and the replies
\* are posted in the order the requests were received.
C16_UnitsSerializedFifo ==
    /\ Cardinality(running) <= 1
    /\ \A i, j \in 1..Len(posted) : i < j => posted[i] < posted[j]
    /\ \A u \in running :
          /\ \A i \in 1..Len(posted) : posted[i] < u.id
          /\ \A i \in 1..Len(compileQueue) : u.id < compileQueue[i].id

C16_RequestWaitsBehindUnit ==
    /\ running # {} /\ compileQueue # <<>>
    /\ Len(posted) >= 1

\* C17: every request received is waiting, in progress or answered, and is
\* answered once, whether or not it is the newest request and whether or not
\* a unit before it failed.
C17_OneReplyPerRequest ==
    /\ \A id \in Received : Places(id) = 1
    /\ \A i \in 1..Len(posted) : posted[i] \in Received
    /\ \A i \in 1..Len(outbox) : outbox[i].id \in Range(posted)

C17_ReplyAfterFailedUnit ==
    /\ Len(posted) >= 2 /\ Len(outbox) >= 2
    /\ ~outbox[Len(outbox) - 1].ok
    /\ outbox[Len(outbox)].ok
    /\ outbox[Len(outbox)].id < compileSeq

\* C18: the renderer is built with the extended font set at most once, and
\* neither the upgrade flag nor an upgraded renderer is ever taken back.
C18_UpgradeAtMostOnce ==
    [][/\ unionBuilds' <= 1
       /\ emojiLoaded => emojiLoaded'
       /\ compilerPromise.fonts = "union" => compilerPromise'.fonts = "union"]_vars

C18_SecondEmojiRequestRendered ==
    /\ unionBuilds = 1
    /\ \E u \in running : /\ u.mainTypst = "emoji" /\ u.pc = "union"
                          /\ \E c \in 1..(u.id - 1) : calls[c].src = "emoji"

\* C19: once a request has triggered the upgrade, every request rendered
\* from then on is rendered by a renderer built with the core and the emoji
\* fonts.
C19_UpgradedRendererUsed ==
    emojiLoaded => \A u \in running : u.pc \in {"core", "union"} => u.pc = "union"

\* C20: no renderer is built before the first unit starts, and the renderer
\* with the core fonts is built at most once, however many requests arrive
\* while it is being built.
C20_BaseBuiltOnce ==
    /\ baseBuilds <= 1
    /\ (posted = <<>> /\ running = {}) => (baseBuilds = 0 /\ unionBuilds = 0)
    /\ \A u \in running : u.pc = "core" => baseBuilds = 1

C20_LaterRequestSharesRenderer ==
    /\ baseBuilds = 1
    /\ Len(posted) >= 1
    /\ \E u \in running : u.pc = "core"

\* the reply that resumes compile() number c in this step reports that the
\* renderer could not be built
InitFailureFor(c) ==
    /\ microQ = <<>> /\ outbox # <<>>
    /\ Head(outbox).id = calls[c].corr
    /\ Head(outbox).cause = "init"

\* C13: when the renderer could not be built, the current compile() rejects
\* instead of resolving with the error outcome of a render failure.
C13_InitFailureRejects ==
    [][\A c \in 1..Len(calls) :
          (Resumes(c) /\ c = compileSeq /\ InitFailureFor(c)) =>
              calls'[c].res = "rejected"]_vars

\* C14: a render failure or a disposal failure never makes compile() reject;
\* for the current call it resolves with status error and the message, after
\* an error notification and an error status emission, and for a stale call
\* it resolves idle.
C14_FailureResolvesAsError ==
    [][\A c \in 1..Len(calls) : (Resumes(c) /\ FailureFor(c)) =>
          IF c = compileSeq
          THEN /\ calls'[c].res = "error"
               /\ calls'[c].error = FailureMsg(c)
               /\ Emits(last'.notes, {"error"})
               /\ EmitsStatus(last'.notes, {"error"})
               /\ lastStatus' = "error"
          ELSE calls'[c].res = "idle"]_vars

C14_DisposalFailureResolved ==
    /\ last.op = "reply" /\ last.arg = compileSeq
    /\ calls[last.arg].res = "error"
    /\ calls[last.arg].error = DisposedMsg
    /\ \E c \in 1..Len(calls) : calls[c].res = "error" /\ calls[c].error = "diag"

\* the reply at the head of the outbox resumes compile() number c in this step
RepliedTo(c) == Resumes(c) /\ microQ = <<>> /\ outbox # <<>>

\* C15: overlapping calls have pairwise distinct correlation ids; while the
\* worker lives, the request of every pending call is waiting or answered;
\* each call is resumed by the reply that carries its own id, with the
\* document of its own source, whatever the order of the replies; its entry
\* is removed then, and a call that has returned is not resumed again.
C15_EachCallGetsOwnReply ==
    [][/\ \A c, d \in 1..Len(calls') :
             c # d => calls'[c].corr # calls'[d].corr
       /\ \A i, j \in 1..Len(pending') : i # j => pending'[i] # pending'[j]
       /\ ~workerTerminated' =>
             \A i \in 1..Len(pending') :
                 Cardinality({k \in 1..Len(compileQueue') :
                                 compileQueue'[k].id = pending'[i]})
               + Cardinality({k \in 1..Len(outbox') :
                                 outbox'[k].id = pending'[i]}) = 1
       /\ \A c \in 1..Len(calls) :
             /\ RepliedTo(c) =>
                   /\ Head(outbox).id = calls[c].corr
                   /\ calls[c].corr \in Range(pending)
                   /\ calls[c].corr \notin Range(pending')
                   /\ (c = compileSeq /\ Head(outbox).ok) =>
                         last'.notes[1].arg = calls[c].src
             /\ calls[c].st = "returned" => calls'[c] = calls[c]]_vars

C15_RepliesInReverseOrder ==
    /\ ~workerTerminated
    /\ last.op = "reply" /\ last.arg = 1
    /\ Len(calls) >= 2
    /\ calls[1].st = "returned" /\ calls[2].st = "returned"
    /\ calls[2].res \in {"done", "error"}

\* C21: once a construction of the renderer has failed, no unit of the
\* worker posts a successful reply any more.
C21_InitFailureIsFatal ==
    [][(initFailed /\ Len(posted') > Len(posted)) =>
          ~outbox'[Len(outbox')].ok]_vars

\* C22: compileSeq never decreases and changes only in the step of a
\* compile() call, which adds exactly one, emits the compiling status with
\* the new number, hands the request to the Bridge and processes no reply;
\* the calls made so far are numbered 1, 2, ... without gaps or repeats.
C22_SeqStrictlyIncreasing ==
    [][/\ compileSeq' >= compileSeq
       /\ Len(calls') = compileSeq'
       /\ compileSeq' # compileSeq =>
             /\ compileSeq' = compileSeq + 1
             /\ last'.op = "compile" /\ last'.arg = compileSeq'
             /\ Len(last'.notes) = 1
             /\ last'.notes[1].kind = "status"
             /\ last'.notes[1].arg = "compiling"
             /\ lastStatus' = "compiling"
             /\ calls'[Len(calls')].st = "awaiting"
             /\ calls'[Len(calls')].corr = nextCorrId
             /\ pending' = Append(pending, nextCorrId)
             /\ outbox' = outbox
             /\ \A c \in 1..Len(calls) : calls'[c] = calls[c]]_vars

C22_SecondCallBeforeFirstReply ==
    /\ last.op = "compile" /\ compileSeq = 2
    /\ calls[1].st = "awaiting" /\ calls[2].st = "awaiting"
    /\ listeners # <<>>

\* no unsubscribe token of the observer of registration r is invoked in this
\* step
KeepsRegistered(r) ==
    \A t \in 1..Len(regs) : regs[t] = regs[r] => tokenCalled'[t] = tokenCalled[t]

\* C25: every notification emitted in a step visits exactly once each
\* registration that is in the list before and after the step and whose
\* observer invokes none of its tokens during the step, whatever tokens the
\* other observers invoke from their callbacks.
C25_DeliveredExactlyOnce ==
    [][\A i \in 1..Len(last'.notes) :
          \A r \in Range(listeners) \cap Range(listeners') :
              KeepsRegistered(r) =>
                  Cardinality({k \in 1..Len(last'.notes[i].to) :
                                  last'.notes[i].to[k] = r}) = 1]_vars

\* observer o is registered and none of its tokens has been invoked
StaysRegistered(o) ==
    /\ \E i \in 1..Len(listeners) : regs[listeners[i]] = o
    /\ \A t \in 1..Len(regs) : regs[t] = o => ~tokenCalled[t]

\* C23: before dispose(), the url an observer that stays registered last got
\* by onSuccess is currentPdfUrl and is live; and when a reply has emitted
\* done, the url of the onSuccess before it is currentPdfUrl.
C23_ObserverHoldsLiveUrl ==
    /\ ~workerTerminated =>
          \A o \in Observers : (StaysRegistered(o) /\ held[o] # NULL) =>
              /\ held[o] = currentPdfUrl
              /\ held[o] \in liveUrls
    /\ (last.op = "reply" /\ EmitsStatus(last.notes, {"done"})) =>
          /\ last.notes[1].kind = "success"
          /\ last.notes[1].url = currentPdfUrl

\* C24: without dispose() and with a worker that answers, a compiling
\* status is followed by a done or error status once the calls stop; the
\* reply of the last call is current when it is processed.
C24_CompilingEnds ==
    (lastStatus = "compiling") ~> (lastStatus \in {"done", "error"})

C24_BurstSettled ==
    /\ compileSeq = MaxBurst
    /\ \A c \in 1..Len(calls) : calls[c].st = "returned"
    /\ \E c \in 1..(Len(calls) - 1) : calls[c].res = "idle"
    /\ last.op = "reply" /\ last.arg = compileSeq
    /\ lastStatus \in {"done", "error"}

\* C26: in the mounted editor, when no timer of the debounced compile is
\* armed, the compile() call with the highest sequence number was made with
\* the text of the editor, and a current reply that has just succeeded
\* delivered the document of that text.
C26_LatestCompileHasFinalText ==
    (mounted /\ timers = {}) =>
        /\ compileSeq >= 1
        /\ calls[compileSeq].src = typstCode
        /\ (last.op = "reply" /\ last.arg = compileSeq
              /\ calls[compileSeq].res = "done") =>
                 /\ last.notes[1].arg = typstCode
                 /\ held["A"] = currentPdfUrl

C26_OlderTextSuperseded ==
    /\ mounted /\ timers = {}
    /\ last.op = "reply" /\ last.arg = compileSeq
    /\ \E c \in 1..(compileSeq - 1) :
          /\ calls[c].src # typstCode
          /\ calls[c].res = "idle"
    /\ calls[compileSeq].res = "done"
    /\ nSched >= 2

====
